---- MODULE Spec2Model ----
(***************************************************************************)
(* Model of the spaced-repetition scheduler of WordWiseCoach               *)
(* (client/src/lib/spaced-repetition.ts).                                  *)
(*                                                                         *)
(* Numbers.  easeFactor is an IEEE double in the source; every value the   *)
(* scheduler produces from integer qualities is a multiple of 0.01, so the *)
(* model keeps easeFactor in hundredths (2.5 is 250, 1.3 is 130).  The     *)
(* double that the source holds differs from that decimal by a rounding    *)
(* error below 1e-12, which shows in one place only: when the decimal      *)
(* product interval * easeFactor lies exactly half way between two         *)
(* integers, the double product lies on either side of the half and        *)
(* Math.round goes either way (155 * 1.9 is 294.5, but the ease factor     *)
(* reached as 1.8999999999999997 gives 294).  Such a tie is a              *)
(* nondeterministic choice, halfUp.                                        *)
(* A Date is its time value, here in whole hours since 1970-01-01T00:00    *)
(* local time; the calendar fields are computed from it as ECMAScript      *)
(* does, without daylight-saving shifts.                                   *)
(***************************************************************************)
EXTENDS Integers, Sequences, FiniteSets, TLC

VARIABLES schedule, now, reviews, sinceFailure, last

\* the latest calls of needsReview and of getReviewPriority
VARIABLES dueCall, prioCall

\* the latest call of generateReviewSession
VARIABLES sessionCall

helperVars == <<dueCall, prioCall>>

\* the user_progress table, the storage calls in flight and the number of
\* writes made to the table
VARIABLES rows, calls, writes

storeVars == <<rows, calls, writes>>

\* the study page: the data of its two queries, its state, the route shown,
\* and, for each word, how often it was answered and the schedule computed
\* by the latest answer; fb is the latest call of handleFeedback
VARIABLES reviewWords, newWords, sessionWords, currentWordIndex,
          isSessionInitialized, location, answered, fb

pageVars == <<reviewWords, newWords, sessionWords, currentWordIndex,
              isSessionInitialized, location, answered, fb>>

\* the study_plans table, the number of plans ever inserted and the latest
\* study-plan request
VARIABLES plans, plansCreated, planCall

planVars == <<plans, plansCreated, planCall>>

\* for each caller, what its latest toggleWordStar call found when it began:
\* the number of writes made before it and the isStarred values of the rows
\* of its pair
VARIABLES toggles

\* what the scheduler's own steps leave alone
besideScheduler == <<helperVars, sessionCall, storeVars, pageVars, planVars,
                     toggles>>

\* what a call of a helper leaves alone
besideHelpers == <<sessionCall, storeVars, pageVars, planVars, toggles>>

\* what the progress store's and the study page's steps leave alone, but the
\* clock
wordVars == <<schedule, reviews, sinceFailure, last, helperVars, sessionCall,
              planVars>>

vars == <<schedule, now, reviews, sinceFailure, last, helperVars,
          sessionCall, storeVars, pageVars, planVars, toggles>>

(* ---------------------------- bounds ----------------------------------- *)
MaxReviews == 3          \* reviews of the word in Spec
MaxLongReviews == 10     \* reviews of the word in SpecLong
BelowRange == 1          \* how far below 0 a quality may be
AboveRange == 1          \* how far above 5 a quality may be
MaxTicks == 1            \* clock steps after the start of a run
TickHours == 12          \* length of one clock step
MaxAnyInterval == 7      \* intervals of the arbitrary prior schedules
MaxAnyReps == 3          \* repetitions of the arbitrary prior schedules
MaxAnyEase == 270        \* largest easeFactor of the arbitrary priors
FarQuality == 20         \* a quality far outside the 0-5 scale
MaxOverdueSteps == 8     \* how long ago a stored review date may lie
OverdueStepHours == 36   \* spacing of the stored review dates
MaxPrioReps == 11        \* repetitions of the schedules that are ranked
MaxHelperTicks == 2      \* clock steps in SpecHelpers
MaxStoreCalls == 3       \* storage calls made in SpecStore
MaxDaysAgo == 2          \* age in days of the rows a session starts with
MaxStudyRows == 2        \* rows in the table when a session starts
MaxAnswers == 3          \* answers given in one session
MaxDueReviews == 2       \* reviews in SpecDue
MaxDueTicks == 6         \* clock steps in SpecDue
DueStepHours == 36       \* length of a clock step in SpecDue
MaxSessionWords == 3     \* words handed to generateReviewSession
MaxPlans == 3            \* study plans created
MaxPlanOps == 4          \* study-plan requests made

(* --------------------------- constants --------------------------------- *)
MIN_EASE_FACTOR == 130
INITIAL_EASE_FACTOR == 250
INITIAL_INTERVAL == 1
HoursPerDay == 24
PriorityScale == 60      \* a priority point is 60 units: a tenth of a day
                         \* overdue per hour and 0.3 per mastery point are whole

Null == [isNull |-> TRUE]
NoCall == [called |-> FALSE]

(* ------------------------- Date arithmetic ----------------------------- *)
InLeapYear(y) == (y % 4 = 0 /\ y % 100 # 0) \/ y % 400 = 0

DayFromYear(y) ==
    365 * (y - 1970) + ((y - 1969) \div 4) - ((y - 1901) \div 100)
        + ((y - 1601) \div 400)

YearFromDay(d) ==
    LET y0 == 1970 + (d \div 365)
    IN  CHOOSE y \in (y0 - 2)..y0 : DayFromYear(y) <= d /\ d < DayFromYear(y + 1)

\* days of year y before its month m (0 = January .. 11 = December, 12 = end)
MonthStart(y, m) ==
    <<0, 31, 59, 90, 120, 151, 181, 212, 243, 273, 304, 334, 365>>[m + 1]
        + (IF InLeapYear(y) /\ m >= 2 THEN 1 ELSE 0)

MonthFromDay(d) ==
    LET y == YearFromDay(d)
        dwy == d - DayFromYear(y)
    IN  CHOOSE m \in 0..11 : MonthStart(y, m) <= dwy /\ dwy < MonthStart(y, m + 1)

\* MakeDay of ECMAScript for a month in 0..11: a date past the end of the
\* month runs on into the following months
MakeDay(y, m, dt) == DayFromYear(y) + MonthStart(y, m) + dt - 1

Day(t) == t \div HoursPerDay

TimeWithinDay(t) == t % HoursPerDay

\* Date.prototype.getDate: the day of the month, 1..31
getDate(t) ==
    LET d == Day(t)
        y == YearFromDay(d)
    IN  d - DayFromYear(y) - MonthStart(y, MonthFromDay(d)) + 1

\* setDate stopping at the last day of the month
setDate_Clamped(t, dt) ==
    LET d == Day(t)
        y == YearFromDay(d)
        m == MonthFromDay(d)
        len == MonthStart(y, m + 1) - MonthStart(y, m)
    IN  MakeDay(y, m, IF dt > len THEN len ELSE dt) * HoursPerDay
            + TimeWithinDay(t)

\* Date.prototype.setDate: same year, month and time of day, new day of month
setDate(t, dt) ==
    LET d == Day(t)
    IN  MakeDay(YearFromDay(d), MonthFromDay(d), dt) * HoursPerDay
            + TimeWithinDay(t)

addDays(date, days) == setDate(date, getDate(date) + days)

(* --------------------------- the scheduler ----------------------------- *)
\* Math.round of num / den, den > 0: the nearest integer; halfUp tells on
\* which side of an exact half the double falls
Round(num, den, halfUp) ==
    LET fl == num \div den
        twice == 2 * (num % den)
    IN  IF twice > den THEN fl + 1
        ELSE IF twice < den THEN fl
        ELSE IF halfUp THEN fl + 1 ELSE fl

\* the test of the failure branch
FailedReview(quality, isCorrect) == quality < 3 \/ ~isCorrect

\* NextInterval without the fixed second step
NextInterval_NoSecondStep(interval, easeFactor, repetitions, halfUp) ==
    IF repetitions = 1 THEN 1
    ELSE Round(interval * easeFactor, 100, halfUp)

\* NextInterval keeping six days for the third success as well
NextInterval_SixAgain(interval, easeFactor, repetitions, halfUp) ==
    IF repetitions = 1 THEN 1
    ELSE IF repetitions <= 3 THEN 6
    ELSE Round(interval * easeFactor, 100, halfUp)

\* the interval of a successful review; repetitions is already incremented
NextInterval(interval, easeFactor, repetitions, halfUp) ==
    IF repetitions = 1 THEN 1
    ELSE IF repetitions = 2 THEN 6
    ELSE Round(interval * easeFactor, 100, halfUp)

\* 0.1 - (5 - quality) * (0.08 + (5 - quality) * 0.02), in hundredths
EaseDelta(quality) == 10 - (5 - quality) * (8 + (5 - quality) * 2)

Max(a, b) == IF a >= b THEN a ELSE b

\* AdjustEase without the floor
AdjustEase_NoFloor(easeFactor, quality) == easeFactor + EaseDelta(quality)

\* AdjustEase with the floor and a ceiling at the initial value
AdjustEase_Capped(easeFactor, quality) ==
    LET e == Max(easeFactor + EaseDelta(quality), MIN_EASE_FACTOR)
    IN  IF e > INITIAL_EASE_FACTOR THEN INITIAL_EASE_FACTOR ELSE e

AdjustEase(easeFactor, quality) ==
    Max(easeFactor + EaseDelta(quality), MIN_EASE_FACTOR)

\* calculateNextReview whose first review counts as a success by the test of
\* the later ones
calculateNextReview_InitByQuality(currentSchedule, reviewResult, today, halfUp) ==
    LET quality == reviewResult.quality
        isCorrect == reviewResult.isCorrect
    IN  IF currentSchedule = Null
        THEN [nextReviewDate |-> addDays(today, INITIAL_INTERVAL),
              interval |-> INITIAL_INTERVAL,
              easeFactor |-> INITIAL_EASE_FACTOR,
              repetitions |-> IF FailedReview(quality, isCorrect) THEN 0 ELSE 1]
        ELSE IF FailedReview(quality, isCorrect)
        THEN [nextReviewDate |-> addDays(today, 1),
              interval |-> 1,
              easeFactor |-> currentSchedule.easeFactor,
              repetitions |-> 0]
        ELSE LET repetitions == currentSchedule.repetitions + 1
                 interval == NextInterval(currentSchedule.interval,
                                          currentSchedule.easeFactor,
                                          repetitions, halfUp)
             IN  [nextReviewDate |-> addDays(today, interval),
                  interval |-> interval,
                  easeFactor |-> AdjustEase(currentSchedule.easeFactor, quality),
                  repetitions |-> repetitions]

\* calculateNextReview adjusting the ease factor on a failed review too, as
\* the original SM-2 does
calculateNextReview_EaseOnFailure(currentSchedule, reviewResult, today, halfUp) ==
    LET quality == reviewResult.quality
        isCorrect == reviewResult.isCorrect
    IN  IF currentSchedule = Null
        THEN [nextReviewDate |-> addDays(today, INITIAL_INTERVAL),
              interval |-> INITIAL_INTERVAL,
              easeFactor |-> INITIAL_EASE_FACTOR,
              repetitions |-> IF isCorrect THEN 1 ELSE 0]
        ELSE IF FailedReview(quality, isCorrect)
        THEN [nextReviewDate |-> addDays(today, 1),
              interval |-> 1,
              easeFactor |-> AdjustEase(currentSchedule.easeFactor, quality),
              repetitions |-> 0]
        ELSE LET repetitions == currentSchedule.repetitions + 1
                 interval == NextInterval(currentSchedule.interval,
                                          currentSchedule.easeFactor,
                                          repetitions, halfUp)
             IN  [nextReviewDate |-> addDays(today, interval),
                  interval |-> interval,
                  easeFactor |-> AdjustEase(currentSchedule.easeFactor, quality),
                  repetitions |-> repetitions]

\* calculateNextReview adjusting the ease factor before it scales the interval
calculateNextReview_EaseFirst(currentSchedule, reviewResult, today, halfUp) ==
    LET quality == reviewResult.quality
        isCorrect == reviewResult.isCorrect
    IN  IF currentSchedule = Null
        THEN [nextReviewDate |-> addDays(today, INITIAL_INTERVAL),
              interval |-> INITIAL_INTERVAL,
              easeFactor |-> INITIAL_EASE_FACTOR,
              repetitions |-> IF isCorrect THEN 1 ELSE 0]
        ELSE IF FailedReview(quality, isCorrect)
        THEN [nextReviewDate |-> addDays(today, 1),
              interval |-> 1,
              easeFactor |-> currentSchedule.easeFactor,
              repetitions |-> 0]
        ELSE LET repetitions == currentSchedule.repetitions + 1
                 easeFactor == AdjustEase(currentSchedule.easeFactor, quality)
                 interval == NextInterval(currentSchedule.interval, easeFactor,
                                          repetitions, halfUp)
             IN  [nextReviewDate |-> addDays(today, interval),
                  interval |-> interval,
                  easeFactor |-> easeFactor,
                  repetitions |-> repetitions]

\* calculateNextReview halving the interval of a failed review
calculateNextReview_SoftReset(currentSchedule, reviewResult, today, halfUp) ==
    LET quality == reviewResult.quality
        isCorrect == reviewResult.isCorrect
    IN  IF currentSchedule = Null
        THEN [nextReviewDate |-> addDays(today, INITIAL_INTERVAL),
              interval |-> INITIAL_INTERVAL,
              easeFactor |-> INITIAL_EASE_FACTOR,
              repetitions |-> IF isCorrect THEN 1 ELSE 0]
        ELSE IF FailedReview(quality, isCorrect)
        THEN LET interval == Max(1, currentSchedule.interval \div 2)
             IN  [nextReviewDate |-> addDays(today, interval),
                  interval |-> interval,
                  easeFactor |-> currentSchedule.easeFactor,
                  repetitions |-> 0]
        ELSE LET repetitions == currentSchedule.repetitions + 1
                 interval == NextInterval(currentSchedule.interval,
                                          currentSchedule.easeFactor,
                                          repetitions, halfUp)
             IN  [nextReviewDate |-> addDays(today, interval),
                  interval |-> interval,
                  easeFactor |-> AdjustEase(currentSchedule.easeFactor, quality),
                  repetitions |-> repetitions]

\* calculateNextReview counting the interval from the date the review was due
calculateNextReview_DateFromPrior(currentSchedule, reviewResult, today, halfUp) ==
    LET quality == reviewResult.quality
        isCorrect == reviewResult.isCorrect
    IN  IF currentSchedule = Null
        THEN [nextReviewDate |-> addDays(today, INITIAL_INTERVAL),
              interval |-> INITIAL_INTERVAL,
              easeFactor |-> INITIAL_EASE_FACTOR,
              repetitions |-> IF isCorrect THEN 1 ELSE 0]
        ELSE IF FailedReview(quality, isCorrect)
        THEN [nextReviewDate |-> addDays(currentSchedule.nextReviewDate, 1),
              interval |-> 1,
              easeFactor |-> currentSchedule.easeFactor,
              repetitions |-> 0]
        ELSE LET repetitions == currentSchedule.repetitions + 1
                 interval == NextInterval(currentSchedule.interval,
                                          currentSchedule.easeFactor,
                                          repetitions, halfUp)
             IN  [nextReviewDate |-> addDays(currentSchedule.nextReviewDate,
                                             interval),
                  interval |-> interval,
                  easeFactor |-> AdjustEase(currentSchedule.easeFactor, quality),
                  repetitions |-> repetitions]

\* today is the value of new Date() during the call
calculateNextReview(currentSchedule, reviewResult, today, halfUp) ==
    LET quality == reviewResult.quality
        isCorrect == reviewResult.isCorrect
    IN  IF currentSchedule = Null
        THEN [nextReviewDate |-> addDays(today, INITIAL_INTERVAL),
              interval |-> INITIAL_INTERVAL,
              easeFactor |-> INITIAL_EASE_FACTOR,
              repetitions |-> IF isCorrect THEN 1 ELSE 0]
        ELSE IF FailedReview(quality, isCorrect)
        THEN [nextReviewDate |-> addDays(today, 1),
              interval |-> 1,
              easeFactor |-> currentSchedule.easeFactor,
              repetitions |-> 0]
        ELSE LET repetitions == currentSchedule.repetitions + 1
                 interval == NextInterval(currentSchedule.interval,
                                          currentSchedule.easeFactor,
                                          repetitions, halfUp)
             IN  [nextReviewDate |-> addDays(today, interval),
                  interval |-> interval,
                  easeFactor |-> AdjustEase(currentSchedule.easeFactor, quality),
                  repetitions |-> repetitions]

(* ------------------------------ helpers -------------------------------- *)
\* today is the value of new Date() during the call
needsReview_After(sched, today) ==
    IF sched = Null THEN TRUE ELSE today > sched.nextReviewDate

needsReview(sched, today) ==
    IF sched = Null THEN TRUE ELSE today >= sched.nextReviewDate

Min(a, b) == IF a <= b THEN a ELSE b

\* Math.min(50, daysOverdue * 10), daysOverdue = Math.max(0, hours / 24)
OverdueFactor(sched, today) ==
    Min(50 * PriorityScale,
        (Max(0, today - sched.nextReviewDate) * 10 * PriorityScale) \div HoursPerDay)

\* (100 - masteryLevel) * 0.3
MasteryFactor(masteryLevel) == ((100 - masteryLevel) * 3 * PriorityScale) \div 10

\* the repetition factor without its floor at 0
RepetitionFactor_NoFloor(sched) == (20 - sched.repetitions * 2) * PriorityScale

\* Math.max(0, 20 - schedule.repetitions * 2)
RepetitionFactor(sched) == Max(0, 20 - sched.repetitions * 2) * PriorityScale

\* getReviewPriority without the cap of the overdue factor
getReviewPriority_NoCap(sched, masteryLevel, today) ==
    IF sched = Null THEN 100 * PriorityScale
    ELSE (Max(0, today - sched.nextReviewDate) * 10 * PriorityScale) \div HoursPerDay
             + MasteryFactor(masteryLevel) + RepetitionFactor(sched)

\* getReviewPriority ranking by the time until the review, not the time since
getReviewPriority_Ahead(sched, masteryLevel, today) ==
    IF sched = Null THEN 100 * PriorityScale
    ELSE Min(50 * PriorityScale,
             (Max(0, sched.nextReviewDate - today) * 10 * PriorityScale) \div HoursPerDay)
             + MasteryFactor(masteryLevel) + RepetitionFactor(sched)

\* the priority in units of 1 / PriorityScale
getReviewPriority(sched, masteryLevel, today) ==
    IF sched = Null THEN 100 * PriorityScale
    ELSE OverdueFactor(sched, today) + MasteryFactor(masteryLevel)
             + RepetitionFactor(sched)

\* the list with word put behind the words that rank at least as high: the
\* place a stable sort by descending priority gives it
RECURSIVE InsertByPriority(_, _)
InsertByPriority(sorted, word) ==
    IF sorted = <<>> THEN <<word>>
    ELSE IF Head(sorted).priority >= word.priority
         THEN <<Head(sorted)>> \o InsertByPriority(Tail(sorted), word)
         ELSE <<word>> \o sorted

\* sort((a, b) => b.priority - a.priority)
RECURSIVE SortByPriority(_)
SortByPriority(list) ==
    IF list = <<>> THEN <<>>
    ELSE InsertByPriority(SortByPriority(SubSeq(list, 1, Len(list) - 1)),
                          list[Len(list)])

\* generateReviewSession without the sort
generateReviewSession_Unsorted(wordsToReview, maxWords, today) ==
    LET top == SubSeq(wordsToReview, 1, Min(maxWords, Len(wordsToReview)))
    IN  [i \in 1..Len(top) |-> top[i].id]

\* every getReviewPriority call of one generateReviewSession call is taken to
\* read the same time
generateReviewSession(wordsToReview, maxWords, today) ==
    LET prioritizedWords ==
            SortByPriority(
                [i \in 1..Len(wordsToReview) |->
                    [id |-> wordsToReview[i].id,
                     schedule |-> wordsToReview[i].schedule,
                     masteryLevel |-> wordsToReview[i].masteryLevel,
                     priority |-> getReviewPriority(wordsToReview[i].schedule,
                                     wordsToReview[i].masteryLevel, today)]])
        top == SubSeq(prioritizedWords, 1, Min(maxWords, Len(prioritizedWords)))
    IN  [i \in 1..Len(top) |-> top[i].id]

(* ------------------------------ inputs --------------------------------- *)
Qualities == ((0 - BelowRange)..(5 + AboveRange)) \cup {FarQuality}

\* the three answers of the study page
Buckets == {1, 3, 5}

\* 2023-12-30 18:00 and 2024-02-27 06:00
StartDates == {MakeDay(2023, 11, 30) * HoursPerDay + 18,
               MakeDay(2024, 1, 27) * HoursPerDay + 6}

\* the values the clock takes
Clock == {s + k * TickHours : s \in StartDates, k \in 0..MaxTicks}

\* the clock of SpecHelpers, from 2024-02-27 06:00 on
HelperStart == MakeDay(2024, 1, 27) * HoursPerDay + 6

HelperClock == {HelperStart + k * TickHours : k \in 0..MaxHelperTicks}

\* schedules whose review date lies from one step ahead to MaxOverdueSteps
\* steps back
HelperSchedules ==
    {[nextReviewDate |-> HelperStart - k * OverdueStepHours, interval |-> 1,
      easeFactor |-> INITIAL_EASE_FACTOR, repetitions |-> r] :
        k \in (0 - 1)..MaxOverdueSteps, r \in 0..MaxPrioReps}

MasteryLevels == {0, 1, 50, 99, 100}

AnyEases == {e \in 100..MaxAnyEase : e % 10 = 0}

\* the schedules of the words handed to generateReviewSession: none, not yet
\* due, due for three days and due for twelve
SessionSchedules ==
    {Null} \cup
    {[nextReviewDate |-> HelperStart - d * HoursPerDay, interval |-> 1,
      easeFactor |-> INITIAL_EASE_FACTOR, repetitions |-> 2] :
        d \in {0 - 1, 3, 12}}

\* lists of up to MaxSessionWords words with ids w1, w2, ...
SessionLists ==
    UNION {{[i \in 1..n |-> [id |-> "w" \o ToString(i),
                             schedule |-> pick[i][1],
                             masteryLevel |-> pick[i][2]]] :
               pick \in [1..n -> SessionSchedules \X {0, 100}]} :
           n \in 0..MaxSessionWords}

AnyPriors ==
    [nextReviewDate : StartDates, interval : 1..MaxAnyInterval,
     easeFactor : AnyEases, repetitions : 0..MaxAnyReps]

(* ------------------------- the progress store -------------------------- *)
Users == {"u1", "u2"}

\* the words table, in the order its rows are listed here
WordsInOrder == <<"w1", "w2">>

Words == {WordsInOrder[i] : i \in 1..Len(WordsInOrder)}

\* the (user, word) pairs that requests are made for
PairsInOrder == <<<<"u1", "w1">>, <<"u1", "w2">>, <<"u2", "w1">>>>

Pairs == {PairsInOrder[i] : i \in 1..Len(PairsInOrder)}

\* the requests that can be in progress at the same time
Callers == {"a", "b"}

\* SQL NULL in a timestamp column
NullDate == 0 - 1

Idle == [pc |-> "idle"]

\* a row as an insert with no values creates it
NewRow(id, userId, wordId) ==
    [id |-> id, userId |-> userId, wordId |-> wordId, masteryLevel |-> 0,
     timesStudied |-> 0, timesCorrect |-> 0, lastStudied |-> NullDate,
     nextReview |-> NullDate, isStarred |-> FALSE,
     isInVocabularyBook |-> FALSE]

\* .set(progress) and .values({..., ...progress}): the columns that progress
\* names take its values; keys that are not columns of the table are ignored
SetColumns(row, progress) ==
    [f \in DOMAIN row |-> IF f \in DOMAIN progress THEN progress[f] ELSE row[f]]

\* the ids of the rows the select matches
Matching(table, userId, wordId) ==
    {i \in 1..Len(table) : table[i].userId = userId /\ table[i].wordId = wordId}

\* the mutant: the select matches on the word only
getUserProgress_AnyUser(table, userId, wordId) ==
    LET found == {i \in 1..Len(table) : table[i].wordId = wordId}
    IN  IF found = {} THEN {0} ELSE found

\* the ids result[0] can have (0: undefined); the select has no ORDER BY, so
\* with several matching rows any of them can come first
getUserProgress(table, userId, wordId) ==
    LET found == Matching(table, userId, wordId)
    IN  IF found = {} THEN {0} ELSE found

\* what toggleWordStar can take a pair's isStarred to be: existing?.isStarred
\* || false, for each row the select can put first
StarredOf(table, userId, wordId) ==
    {IF i = 0 THEN FALSE ELSE table[i].isStarred :
        i \in getUserProgress(table, userId, wordId)}

\* lte(nextReview, now) is not true of a row whose nextReview is NULL
getWordsForReview(table, userId, today) ==
    {table[i] : i \in {k \in 1..Len(table) :
                        /\ table[k].userId = userId
                        /\ table[k].nextReview # NullDate
                        /\ table[k].nextReview <= today}}

\* the time of SpecStore and SpecStudy: 2024-02-27 06:00
StoreStart == MakeDay(2024, 1, 27) * HoursPerDay + 6

\* the bodies the study page posts for an answer given at time today: a failed
\* first review and a second success
ProgressBodies(today) ==
    {[nextReview |-> addDays(today, 1), lastStudied |-> today,
      timesStudied |-> 1, timesCorrect |-> 0],
     [nextReview |-> addDays(today, 6), lastStudied |-> today,
      timesStudied |-> 2, timesCorrect |-> 2]}

\* what updateUserProgress writes: the row that was found is updated, or a
\* new row is inserted
WriteRow(table, existing, userId, wordId, progress) ==
    IF existing # 0
    THEN [table EXCEPT ![existing] = SetColumns(@, progress)]
    ELSE Append(table, SetColumns(NewRow(Len(table) + 1, userId, wordId),
                                  progress))

(* --------------------------- the study page ---------------------------- *)
\* the user that is logged in
Me == "u1"

\* query data that has not arrived
NotLoaded == [loaded |-> FALSE]

\* a session word without the progress property
NoProgress == [absent |-> TRUE]

\* a number that is NaN, and the time value of an invalid Date
NaN == 0 - 2

\* the sets of words the select can return: words that have no row of the
\* user, as many of them as the category and the limit of the plan let through
getNewWordsForPlan(table, userId) ==
    SUBSET {w \in Words : Matching(table, userId, w) = {}}

\* the rows of a query result joined with their words, in table order
ReviewList(table, result) ==
    LET InResult(r) == r \in result
        found == SelectSeq(table, InResult)
    IN  [i \in 1..Len(found) |->
            [id |-> found[i].wordId, progress |-> found[i], result |-> 0]]

\* words without progress, in table order
NewList(ws) ==
    LET InSet(w) == w \in ws
        found == SelectSeq(WordsInOrder, InSet)
    IN  [i \in 1..Len(found) |->
            [id |-> found[i], progress |-> NoProgress, result |-> 0]]

\* the orders shuffle can leave a list in
Shuffles(list) ==
    LET n == Len(list)
    IN  {[i \in 1..n |-> list[p[i]]] :
            p \in {q \in [1..n -> 1..n] : \A i, j \in 1..n : q[i] = q[j] => i = j}}

\* handleFeedback 95-100: the schedule read from the session's copy of the
\* row; a row has no interval, easeFactor or repetitions, so these three
\* properties are undefined and the record has no such fields
CurrentSchedule(progress, today) ==
    IF progress = NoProgress THEN Null
    ELSE [nextReviewDate |-> IF progress.nextReview = NullDate THEN today
                             ELSE progress.nextReview]

\* calculateNextReview on a schedule whose interval, easeFactor and
\* repetitions are undefined. A failure assigns interval 1 and repetitions 0
\* and leaves easeFactor undefined. A success takes the last branch
\* (undefined === 1 and undefined === 2 are false), where
\* Math.round(undefined * undefined), undefined + 1 and
\* Math.max(1.3, undefined + ...) are NaN and setDate(getDate() + NaN) makes
\* the date invalid
calculateNextReviewOfRow(currentSchedule, reviewResult, today) ==
    IF FailedReview(reviewResult.quality, reviewResult.isCorrect)
    THEN [nextReviewDate |-> addDays(today, 1), interval |-> 1,
          repetitions |-> 0]
    ELSE [nextReviewDate |-> NaN, interval |-> NaN, easeFactor |-> NaN,
          repetitions |-> NaN]

\* the schedule handleFeedback computes
NewSchedule(currentSchedule, reviewResult, today) ==
    IF currentSchedule = Null
    THEN calculateNextReview(Null, reviewResult, today, TRUE)
    ELSE calculateNextReviewOfRow(currentSchedule, reviewResult, today)

\* the body of the POST as the route hands it to updateUserProgress:
\* JSON.stringify turns NaN and an invalid Date into null and drops an
\* undefined property; interval, easeFactor and repetitions travel along,
\* although the table has no such columns
Updates(progress, newSchedule, isCorrect, today) ==
    LET studied == IF progress = NoProgress THEN 0 ELSE progress.timesStudied
        correct == IF progress = NoProgress THEN 0 ELSE progress.timesCorrect
        sent == [interval |-> newSchedule.interval,
                 repetitions |-> newSchedule.repetitions,
                 nextReview |-> IF newSchedule.nextReviewDate = NaN
                                THEN NullDate ELSE newSchedule.nextReviewDate,
                 lastStudied |-> today,
                 timesStudied |-> studied + 1,
                 timesCorrect |-> correct + (IF isCorrect THEN 1 ELSE 0)]
    IN  IF "easeFactor" \in DOMAIN newSchedule
        THEN [f \in DOMAIN sent \cup {"easeFactor"} |->
                 IF f = "easeFactor" THEN newSchedule.easeFactor ELSE sent[f]]
        ELSE sent

\* the tables a session can start from: up to MaxStudyRows rows, each
\* inserted by a star toggle or by an answer posted some days ago; the rows
\* are of different pairs, or they are the two rows of one pair that two
\* concurrent first writes have inserted
EarlierWrites ==
    {[isStarred |-> TRUE]} \cup
    UNION {ProgressBodies(StoreStart - d * HoursPerDay) : d \in 1..MaxDaysAgo}

StudyTables ==
    LET Pick(ps) == SelectSeq(PairsInOrder, LAMBDA pr : pr \in ps)
        lists == {Pick(ps) : ps \in {qs \in SUBSET Pairs :
                                        Cardinality(qs) <= MaxStudyRows}}
        twice == {[i \in 1..2 |-> SetColumns(NewRow(i, Me, WordsInOrder[1]),
                                             w[i])] :
                    w \in [1..2 -> ProgressBodies(StoreStart - HoursPerDay)]}
    IN  twice \cup
        UNION {{[i \in 1..Len(l) |->
                   SetColumns(NewRow(i, l[i][1], l[i][2]), w[i])] :
                 w \in [1..Len(l) -> EarlierWrites]} : l \in lists}

(* ------------------------------ actions -------------------------------- *)
NoCalls ==
    /\ calls = [c \in Callers |-> Idle]
    /\ writes = 0
    /\ toggles = [c \in Callers |-> NoCall]

StoreIdle ==
    /\ rows = <<>>
    /\ NoCalls

\* the page before its queries have answered
PageLoading ==
    /\ reviewWords = NotLoaded
    /\ newWords = NotLoaded
    /\ sessionWords = <<>>
    /\ currentWordIndex = 0
    /\ isSessionInitialized = FALSE
    /\ answered = [w \in Words |-> [n |-> 0, correct |-> 0, schedule |-> Null]]
    /\ fb = NoCall

PageIdle ==
    /\ PageLoading
    /\ location = "/dashboard"

HelpersIdle == dueCall = NoCall /\ prioCall = NoCall /\ sessionCall = NoCall

\* no study plan has been made
PlansIdle ==
    /\ plans = {}
    /\ plansCreated = 0
    /\ planCall = [called |-> FALSE, n |-> 0]

\* a word with or without a schedule, about to be ranked
InitHelpers ==
    /\ schedule \in {Null} \cup HelperSchedules
    /\ now = HelperStart
    /\ reviews = 0
    /\ sinceFailure = 0
    /\ last = NoCall
    /\ HelpersIdle
    /\ PlansIdle
    /\ StoreIdle
    /\ PageIdle

Init ==
    /\ schedule = Null
    /\ now \in StartDates
    /\ reviews = 0
    /\ sinceFailure = 0
    /\ last = NoCall
    /\ HelpersIdle
    /\ PlansIdle
    /\ StoreIdle
    /\ PageIdle

\* an arbitrary stored schedule, about to be reviewed once
InitAny ==
    /\ schedule \in AnyPriors
    /\ now = schedule.nextReviewDate
    /\ reviews = 0
    /\ sinceFailure = 0
    /\ last = NoCall
    /\ HelpersIdle
    /\ PlansIdle
    /\ StoreIdle
    /\ PageIdle

\* one review of the word (sinceFailure counts the reviews made after the
\* most recent one with quality < 3 or isCorrect false): the stored schedule is fed to calculateNextReview
\* and replaced by what it returns
Review(quality, isCorrect) ==
    \E halfUp \in BOOLEAN :
    LET result == calculateNextReview(schedule,
                      [quality |-> quality, isCorrect |-> isCorrect], now,
                      halfUp)
    IN  /\ schedule' = result
        /\ reviews' = reviews + 1
        /\ sinceFailure' = IF quality < 3 \/ ~isCorrect THEN 0
                           ELSE sinceFailure + 1
        /\ last' = [called |-> TRUE, prior |-> schedule, quality |-> quality,
                    isCorrect |-> isCorrect, at |-> now, result |-> result]
        /\ UNCHANGED <<now, besideScheduler>>

\* the wall clock moves on
Tick ==
    /\ now + TickHours \in Clock
    /\ now' = now + TickHours
    /\ UNCHANGED <<schedule, reviews, sinceFailure, last, besideScheduler>>

\* the wall clock of SpecHelpers moves on
HelperTick ==
    /\ now + TickHours \in HelperClock
    /\ now' = now + TickHours
    /\ UNCHANGED <<schedule, reviews, sinceFailure, last, helperVars,
                   besideHelpers>>

\* a call of needsReview on the stored schedule
NeedsReview ==
    /\ dueCall' = [called |-> TRUE, schedule |-> schedule, at |-> now,
                   result |-> needsReview(schedule, now)]
    /\ UNCHANGED <<schedule, now, reviews, sinceFailure, last, prioCall,
                   besideHelpers>>

\* a call of getReviewPriority on the stored schedule
GetReviewPriority ==
    /\ \E masteryLevel \in MasteryLevels :
           prioCall' = [called |-> TRUE, schedule |-> schedule,
                        masteryLevel |-> masteryLevel, at |-> now,
                        result |-> getReviewPriority(schedule, masteryLevel, now)]
    /\ UNCHANGED <<schedule, now, reviews, sinceFailure, last, dueCall,
                   besideHelpers>>

ReviewWord ==
    /\ reviews < MaxReviews
    /\ \E quality \in Qualities, isCorrect \in BOOLEAN : Review(quality, isCorrect)

ReviewBucket ==
    /\ reviews < MaxLongReviews
    /\ \E quality \in Buckets, isCorrect \in BOOLEAN : Review(quality, isCorrect)

ReviewOnce ==
    /\ reviews < 1
    /\ \E quality \in Qualities, isCorrect \in BOOLEAN : Review(quality, isCorrect)

Next == ReviewWord \/ Tick

NextLong == ReviewBucket

NextAny == ReviewOnce \/ Tick

NextHelpers == NeedsReview \/ GetReviewPriority \/ HelperTick

Spec == Init /\ [][Next]_vars

SpecLong == Init /\ [][NextLong]_vars

SpecAny == InitAny /\ [][NextAny]_vars

SpecHelpers == InitHelpers /\ [][NextHelpers]_vars

(* ------------------- reviews and the due rule in time ------------------ *)
\* the values the clock of SpecDue takes
DueClock == {s + k * DueStepHours : s \in StartDates, k \in 0..MaxDueTicks}

DueTick ==
    /\ now + DueStepHours \in DueClock
    /\ now' = now + DueStepHours
    /\ UNCHANGED <<schedule, reviews, sinceFailure, last, besideScheduler>>

\* a review with one of the page's answers, due or not
ReviewAnyTime ==
    /\ reviews < MaxDueReviews
    /\ \E quality \in Buckets : Review(quality, quality >= 3)

NextDue == ReviewAnyTime \/ DueTick \/ NeedsReview

SpecDue == Init /\ [][NextDue]_vars

(* ------------------------ review sessions ------------------------------ *)
\* a call of generateReviewSession, the one that is looked at
GenerateReviewSession ==
    /\ ~sessionCall.called
    /\ \E wordsToReview \in SessionLists, maxWords \in 0..(MaxSessionWords + 1) :
           sessionCall' = [called |-> TRUE, wordsToReview |-> wordsToReview,
                           maxWords |-> maxWords, at |-> now,
                           result |-> generateReviewSession(wordsToReview,
                                                            maxWords, now)]
    /\ UNCHANGED <<schedule, now, reviews, sinceFailure, last, helperVars,
                   storeVars, pageVars, planVars, toggles>>

InitSession ==
    /\ schedule = Null
    /\ now = HelperStart
    /\ reviews = 0
    /\ sinceFailure = 0
    /\ last = NoCall
    /\ HelpersIdle
    /\ PlansIdle
    /\ StoreIdle
    /\ PageIdle

NextSession == GenerateReviewSession

SpecSession == InitSession /\ [][NextSession]_vars

(* ----------------------------- study plans ---------------------------- *)
\* the ids a request can name: those of the plans that are ever created
PlanIds == 1..MaxPlans

\* the bodies of PATCH /api/study-plans/:id; the route hands the body to
\* updateStudyPlan as it comes
PlanUpdates ==
    {[isActive |-> TRUE], [isActive |-> FALSE], [dailyWordCount |-> 10]}

\* update(studyPlans).set({ isActive: false }).where(userId)
deactivateAllPlans(table, userId) ==
    {IF p.userId = userId THEN [p EXCEPT !.isActive = FALSE] ELSE p :
        p \in table}

\* insert(studyPlans).values({ ...plan, isActive: true }) after deactivateAllPlans
createStudyPlan(table, id, userId) ==
    deactivateAllPlans(table, userId) \cup
        {[id |-> id, userId |-> userId, dailyWordCount |-> 20,
          isActive |-> TRUE]}

\* update(studyPlans).set(updates).where(userId and id)
updateStudyPlan(table, userId, id, updates) ==
    {IF p.userId = userId /\ p.id = id THEN SetColumns(p, updates) ELSE p :
        p \in table}

deleteStudyPlan(table, userId, id) ==
    {p \in table : ~(p.userId = userId /\ p.id = id)}

\* deactivateAllPlans, then set({ isActive: true }).where(userId and id)
activateStudyPlan(table, userId, id) ==
    updateStudyPlan(deactivateAllPlans(table, userId), userId, id,
                    [isActive |-> TRUE])

\* the record of a request
PlanRequest(op, userId, id) ==
    [called |-> TRUE, n |-> planCall.n + 1, op |-> op, userId |-> userId,
     id |-> id]

\* POST /api/study-plans
CreateStudyPlan ==
    /\ planCall.n < MaxPlanOps
    /\ plansCreated < MaxPlans
    /\ \E userId \in Users :
           /\ plans' = createStudyPlan(plans, plansCreated + 1, userId)
           /\ planCall' = PlanRequest("create", userId, plansCreated + 1)
    /\ plansCreated' = plansCreated + 1
    /\ UNCHANGED <<schedule, now, reviews, sinceFailure, last, helperVars,
                   sessionCall, storeVars, pageVars, toggles>>

\* PATCH /api/study-plans/:id
UpdateStudyPlan ==
    /\ planCall.n < MaxPlanOps
    /\ \E userId \in Users, id \in PlanIds, updates \in PlanUpdates :
           /\ plans' = updateStudyPlan(plans, userId, id, updates)
           /\ planCall' = PlanRequest("update", userId, id)
    /\ UNCHANGED <<schedule, now, reviews, sinceFailure, last, helperVars,
                   sessionCall, storeVars, pageVars, plansCreated, toggles>>

\* DELETE /api/study-plans/:id
DeleteStudyPlan ==
    /\ planCall.n < MaxPlanOps
    /\ \E userId \in Users, id \in PlanIds :
           /\ plans' = deleteStudyPlan(plans, userId, id)
           /\ planCall' = PlanRequest("delete", userId, id)
    /\ UNCHANGED <<schedule, now, reviews, sinceFailure, last, helperVars,
                   sessionCall, storeVars, pageVars, plansCreated, toggles>>

\* POST /api/study-plans/:id/activate
ActivateStudyPlan ==
    /\ planCall.n < MaxPlanOps
    /\ \E userId \in Users, id \in PlanIds :
           /\ plans' = activateStudyPlan(plans, userId, id)
           /\ planCall' = PlanRequest("activate", userId, id)
    /\ UNCHANGED <<schedule, now, reviews, sinceFailure, last, helperVars,
                   sessionCall, storeVars, pageVars, plansCreated, toggles>>

InitPlans ==
    /\ schedule = Null
    /\ now = StoreStart
    /\ reviews = 0
    /\ sinceFailure = 0
    /\ last = NoCall
    /\ HelpersIdle
    /\ PlansIdle
    /\ StoreIdle
    /\ PageIdle

NextPlans ==
    CreateStudyPlan \/ UpdateStudyPlan \/ DeleteStudyPlan \/ ActivateStudyPlan

SpecPlans == InitPlans /\ [][NextPlans]_vars

(* --------------------------- store actions ----------------------------- *)
\* no word is being reviewed or ranked
SchedulerIdle ==
    /\ schedule = Null
    /\ reviews = 0
    /\ sinceFailure = 0
    /\ last = NoCall
    /\ HelpersIdle
    /\ PlansIdle

InitStore ==
    /\ SchedulerIdle
    /\ now = StoreStart
    /\ StoreIdle
    /\ PageIdle

\* a call's record: pc is where it stands, existing the id that its
\* getUserProgress returned (0: none), seen the number of writes made before
\* that query and order the number of writes made up to and including its own
\* the calls that have started and not yet written
InFlight == {c \in Callers : calls[c].pc \in {"read", "write"}}

CanStart(c) ==
    /\ calls[c].pc \in {"idle", "done"}
    /\ writes + Cardinality(InFlight) < MaxStoreCalls

\* updateUserProgress up to the answer of its getUserProgress query
UpdateUserProgress(c, userId, wordId, progress) ==
    \E existing \in getUserProgress(rows, userId, wordId) :
        /\ calls' = [calls EXCEPT ![c] =
                         [pc |-> "write", userId |-> userId, wordId |-> wordId,
                          progress |-> progress, existing |-> existing,
                          seen |-> writes, order |-> 0]]
        /\ UNCHANGED <<rows, writes>>

\* POST /api/progress/:wordId with a body of the study page
PostProgress(c) ==
    /\ CanStart(c)
    /\ \E pair \in Pairs, body \in ProgressBodies(now) :
           UpdateUserProgress(c, pair[1], pair[2], body)
    /\ UNCHANGED <<now, wordVars, toggles, pageVars>>

\* addToVocabularyBook
AddToVocabularyBook(c) ==
    /\ CanStart(c)
    /\ \E pair \in Pairs :
           UpdateUserProgress(c, pair[1], pair[2],
                              [isInVocabularyBook |-> TRUE])
    /\ UNCHANGED <<now, wordVars, toggles, pageVars>>

\* toggleWordStar up to the answer of its own getUserProgress query
ToggleWordStar(c) ==
    /\ CanStart(c)
    /\ \E pair \in Pairs :
       \E existing \in getUserProgress(rows, pair[1], pair[2]) :
           LET isStarred == IF existing = 0 THEN FALSE
                            ELSE rows[existing].isStarred
           IN  /\ calls' = [calls EXCEPT ![c] =
                               [pc |-> "read", userId |-> pair[1],
                                wordId |-> pair[2],
                                progress |-> [isStarred |-> ~isStarred],
                                existing |-> 0, seen |-> writes, order |-> 0]]
               /\ toggles' = [toggles EXCEPT ![c] =
                                 [called |-> TRUE, began |-> writes,
                                  was |-> StarredOf(rows, pair[1], pair[2])]]
    /\ UNCHANGED <<rows, writes, now, wordVars, pageVars>>

\* the updateUserProgress call that toggleWordStar makes, up to the answer of
\* its getUserProgress query
ToggleWordStar_Update(c) ==
    /\ calls[c].pc = "read"
    /\ UpdateUserProgress(c, calls[c].userId, calls[c].wordId,
                          calls[c].progress)
    /\ UNCHANGED <<now, wordVars, toggles, pageVars>>

\* the rest of updateUserProgress: the update of the row that was found, or
\* the insert of a new one
UpdateUserProgress_Write(c) ==
    /\ calls[c].pc = "write"
    /\ rows' = WriteRow(rows, calls[c].existing, calls[c].userId,
                        calls[c].wordId, calls[c].progress)
    /\ writes' = writes + 1
    /\ calls' = [calls EXCEPT ![c].pc = "done", ![c].order = writes + 1]
    /\ UNCHANGED <<now, wordVars, toggles, pageVars>>

NextStore ==
    \/ \E c \in Callers : PostProgress(c)
    \/ \E c \in Callers : AddToVocabularyBook(c)
    \/ \E c \in Callers : ToggleWordStar(c)
    \/ \E c \in Callers : ToggleWordStar_Update(c)
    \/ \E c \in Callers : UpdateUserProgress_Write(c)

SpecStore == InitStore /\ [][NextStore]_vars

\* the tables the star requests are checked on: the empty one, one row for
\* (Me, first word) and the two rows that two concurrent first writes for
\* that pair leave, starred or not
StarTables ==
    {<<>>} \cup
    {[i \in 1..n |-> SetColumns(NewRow(i, Me, WordsInOrder[1]),
                                [isStarred |-> s[i]] @@
                                (CHOOSE body \in
                                     ProgressBodies(StoreStart - HoursPerDay) :
                                         body.timesStudied = i))] :
        n \in 1..2, s \in [1..2 -> BOOLEAN]}

InitStar ==
    /\ SchedulerIdle
    /\ now = StoreStart
    /\ rows \in StarTables
    /\ NoCalls
    /\ PageIdle

NextStar ==
    \/ \E c \in Callers : AddToVocabularyBook(c)
    \/ \E c \in Callers : ToggleWordStar(c)
    \/ \E c \in Callers : ToggleWordStar_Update(c)
    \/ \E c \in Callers : UpdateUserProgress_Write(c)

SpecStar == InitStar /\ [][NextStar]_vars

(* --------------------------- page actions ------------------------------ *)
\* the study page is opened on a table that earlier sessions have left
InitStudy ==
    /\ SchedulerIdle
    /\ now = StoreStart
    /\ rows \in StudyTables
    /\ NoCalls
    /\ PageLoading
    /\ location = "/study"

\* GET /api/words-for-review answers, at first or after an invalidation
FetchReviewWords ==
    /\ location = "/study"
    /\ reviewWords' =
           [loaded |-> TRUE,
            data |-> ReviewList(rows, getWordsForReview(rows, Me, now))]
    /\ UNCHANGED <<now, wordVars, toggles, storeVars, newWords, sessionWords,
                   currentWordIndex, isSessionInitialized, location, answered,
                   fb>>

\* GET /api/new-words-for-plan answers, at first or after an invalidation
FetchNewWords ==
    /\ location = "/study"
    /\ \E ws \in getNewWordsForPlan(rows, Me) :
           newWords' = [loaded |-> TRUE, data |-> NewList(ws)]
    /\ UNCHANGED <<now, wordVars, toggles, storeVars, reviewWords, sessionWords,
                   currentWordIndex, isSessionInitialized, location, answered,
                   fb>>

\* the mutant: the effect runs whenever both queries have data
InitializeSession_OnEveryLoad ==
    /\ location = "/study"
    /\ reviewWords.loaded
    /\ newWords.loaded
    /\ sessionWords' \in Shuffles(reviewWords.data \o newWords.data)
    /\ currentWordIndex' = 0
    /\ isSessionInitialized' = TRUE
    /\ UNCHANGED <<now, wordVars, toggles, storeVars, reviewWords, newWords, location,
                   answered, fb>>

\* the effect that builds the session once both queries have data
InitializeSession ==
    /\ location = "/study"
    /\ reviewWords.loaded
    /\ newWords.loaded
    /\ ~isSessionInitialized
    /\ sessionWords' \in Shuffles(reviewWords.data \o newWords.data)
    /\ currentWordIndex' = 0
    /\ isSessionInitialized' = TRUE
    /\ UNCHANGED <<now, wordVars, toggles, storeVars, reviewWords, newWords, location,
                   answered, fb>>

\* the number of answers given in the session
Answers == LET Sum[ws \in SUBSET Words] ==
                   IF ws = {} THEN 0
                   ELSE LET w == CHOOSE x \in ws : TRUE
                        IN  answered[w].n + Sum[ws \ {w}]
           IN  Sum[Words]

\* handleFeedback: the answer is noted on the session word, the schedule is
\* computed from the session's copy of the word and posted, and the page moves
\* to the next word. The request is taken to reach the store at once and to
\* run alone there.
HandleFeedback(quality) ==
    /\ location = "/study"
    /\ currentWordIndex + 1 \in 1..Len(sessionWords)
    /\ Answers < MaxAnswers
    /\ LET currentWord == sessionWords[currentWordIndex + 1]
           isCorrect == quality >= 3
           reviewResult == [quality |-> quality, isCorrect |-> isCorrect]
           currentSchedule == CurrentSchedule(currentWord.progress, now)
           newSchedule == NewSchedule(currentSchedule, reviewResult, now)
           updates == Updates(currentWord.progress, newSchedule, isCorrect, now)
       IN  /\ sessionWords' = [sessionWords EXCEPT
                                  ![currentWordIndex + 1].result = quality]
           /\ \E existing \in getUserProgress(rows, Me, currentWord.id) :
                  rows' = WriteRow(rows, existing, Me, currentWord.id, updates)
           /\ answered' = [answered EXCEPT ![currentWord.id] =
                              [n |-> @.n + 1,
                               correct |-> @.correct + (IF isCorrect THEN 1
                                                        ELSE 0),
                               schedule |-> newSchedule]]
           /\ fb' = [called |-> TRUE, wordId |-> currentWord.id,
                     n |-> answered[currentWord.id].n + 1,
                     currentSchedule |-> currentSchedule,
                     previous |-> answered[currentWord.id].schedule,
                     newSchedule |-> newSchedule, updates |-> updates]
    /\ IF currentWordIndex < Len(sessionWords) - 1
       THEN currentWordIndex' = currentWordIndex + 1 /\ UNCHANGED location
       ELSE location' = "/session-summary" /\ UNCHANGED currentWordIndex
    /\ UNCHANGED <<now, wordVars, toggles, calls, writes, reviewWords, newWords,
                   isSessionInitialized>>

previousWord ==
    /\ location = "/study"
    /\ currentWordIndex > 0
    /\ currentWordIndex' = currentWordIndex - 1
    /\ UNCHANGED <<now, wordVars, toggles, storeVars, reviewWords, newWords,
                   sessionWords, isSessionInitialized, location, answered, fb>>

\* a click on an entry of the session's word list
handleWordClick(index) ==
    /\ location = "/study"
    /\ currentWordIndex' = index
    /\ UNCHANGED <<now, wordVars, toggles, storeVars, reviewWords, newWords,
                   sessionWords, isSessionInitialized, location, answered, fb>>

NextStudy ==
    \/ FetchReviewWords
    \/ FetchNewWords
    \/ InitializeSession
    \/ \E quality \in Buckets : HandleFeedback(quality)
    \/ previousWord
    \/ \E index \in 0..(Len(sessionWords) - 1) : handleWordClick(index)

SpecStudy == InitStudy /\ [][NextStudy]_vars

(* ------------------------------ claims --------------------------------- *)
\* C1: with a null prior schedule calculateNextReview returns interval 1,
\* easeFactor 2.5, nextReviewDate one day after the call, and repetitions 1
\* if isCorrect else 0, whatever the quality.
C1_InitFromNull ==
    (last.called /\ last.prior = Null) =>
        last.result = [nextReviewDate |-> last.at + HoursPerDay,
                       interval |-> 1,
                       easeFactor |-> 250,
                       repetitions |-> IF last.isCorrect THEN 1 ELSE 0]

\* a first review with a failing quality that is flagged correct
C1_Witness ==
    /\ last.called
    /\ last.prior = Null
    /\ last.quality < 3
    /\ last.isCorrect
    /\ schedule.repetitions = 1

\* C2: for a non-null prior schedule, a review with quality < 3 or with
\* isCorrect false returns repetitions 0, interval 1 and the prior easeFactor.
C2_FailureResets ==
    (last.called /\ last.prior # Null /\ (last.quality < 3 \/ ~last.isCorrect)) =>
        /\ last.result.repetitions = 0
        /\ last.result.interval = 1
        /\ last.result.easeFactor = last.prior.easeFactor

\* a quality-5 answer flagged incorrect, on a schedule with a long interval
C2_Witness ==
    /\ last.called
    /\ last.prior # Null
    /\ last.quality = 5
    /\ ~last.isCorrect
    /\ last.prior.interval > 1
    /\ last.prior.repetitions > 0
    /\ schedule.interval = 1
    /\ schedule.repetitions = 0

\* C3: every schedule returned along a chain of reviews that starts from a
\* never-studied word has easeFactor >= 1.3.
C3_EaseFloor == schedule # Null => schedule.easeFactor >= 130

\* a review whose adjustment would have taken the ease factor below 1.3
C3_Witness ==
    /\ last.called
    /\ last.prior # Null
    /\ last.quality >= 3
    /\ last.isCorrect
    /\ last.prior.easeFactor + EaseDelta(last.quality) < 130
    /\ schedule.easeFactor = 130

\* C4: every schedule returned along a chain of reviews that starts from a
\* never-studied word has an integer interval >= 1.
C4_IntervalAtLeastOne ==
    schedule # Null => (schedule.interval \in Int /\ schedule.interval >= 1)

\* an ease-scaled step taken with the ease factor at its floor
C4_Witness ==
    /\ last.called
    /\ last.prior # Null
    /\ last.prior.easeFactor = 130
    /\ last.result.repetitions >= 3
    /\ schedule.interval >= 1

\* C5: the returned repetitions is >= 0 and equals the number of reviews made
\* since the most recent review with quality < 3 or isCorrect false.
C5_RepetitionsCountSinceFailure ==
    schedule # Null =>
        (schedule.repetitions >= 0 /\ schedule.repetitions = sinceFailure)

\* C6: from a never-studied word, two reviews with quality 5 and isCorrect
\* true return interval 1 and then interval 6: the first review of a word
\* with that answer returns interval 1, and the second review, made with that
\* answer on a schedule that such a first review returned, returns 6.
C6_OneThenSix ==
    /\ (reviews = 1 /\ last.quality = 5 /\ last.isCorrect) =>
           (last.prior = Null /\ last.result.interval = 1)
    /\ (/\ reviews = 2
        /\ last.quality = 5 /\ last.isCorrect
        /\ \E t \in Clock, halfUp \in BOOLEAN :
               last.prior = calculateNextReview(Null,
                                [quality |-> 5, isCorrect |-> TRUE], t, halfUp)) =>
           (last.prior.interval = 1 /\ last.result.interval = 6)

C6_Witness ==
    /\ reviews = 2
    /\ last.quality = 5 /\ last.isCorrect
    /\ \E t \in Clock, halfUp \in BOOLEAN :
           last.prior = calculateNextReview(Null,
                            [quality |-> 5, isCorrect |-> TRUE], t, halfUp)
    /\ last.prior.interval = 1
    /\ schedule.interval = 6

\* C7: for a prior schedule with repetitions >= 2 a successful review returns
\* interval = round(prior interval * prior easeFactor), an integer within one
\* half of the product of the two prior values; the prior
\* {interval 6, easeFactor 2.5, repetitions 2} with quality 5 gives interval
\* 15 and an easeFactor above 2.5.
C7_EaseScaledGrowth ==
    (/\ last.called
     /\ last.prior # Null
     /\ last.prior.repetitions >= 2
     /\ last.quality >= 3
     /\ last.isCorrect) =>
        /\ 2 * (100 * last.result.interval - last.prior.interval * last.prior.easeFactor) <= 100
        /\ 2 * (last.prior.interval * last.prior.easeFactor - 100 * last.result.interval) <= 100
        /\ (/\ last.prior.interval = 6
            /\ last.prior.easeFactor = 250
            /\ last.prior.repetitions = 2
            /\ last.quality = 5) =>
               (last.result.interval = 15 /\ last.result.easeFactor > 250)

C7_Witness ==
    /\ last.called
    /\ last.prior # Null
    /\ last.prior.interval = 6
    /\ last.prior.easeFactor = 250
    /\ last.prior.repetitions = 2
    /\ last.quality = 5
    /\ last.isCorrect
    /\ schedule.interval = 15
    /\ schedule.easeFactor = 260

\* C8: on a successful review of a non-null schedule with quality q in 3..5
\* the returned easeFactor is max(1.3, prior + d(q)), d(5) = +0.10,
\* d(4) = 0.00, d(3) = -0.14; there is no upper clamp: quality 5 adds 0.10
\* to any ease factor that is at or above the floor.
C8_EaseUpdate ==
    (/\ last.called
     /\ last.prior # Null
     /\ last.isCorrect
     /\ last.quality \in 3..5) =>
        LET d == IF last.quality = 5 THEN 10
                 ELSE IF last.quality = 4 THEN 0 ELSE 0 - 14
            e == last.prior.easeFactor + d
        IN  /\ last.result.easeFactor = IF e < 130 THEN 130 ELSE e
            /\ (last.quality = 5 /\ last.prior.easeFactor >= 130) =>
                   last.result.easeFactor = last.prior.easeFactor + 10

\* a quality-5 success that takes the ease factor above every earlier value
C8_Witness ==
    /\ last.called
    /\ last.prior # Null
    /\ last.isCorrect
    /\ last.quality = 5
    /\ last.prior.easeFactor >= 270
    /\ schedule.easeFactor = last.prior.easeFactor + 10

\* C9: the returned nextReviewDate is the date of the call plus the returned
\* interval in days, in the initialization branch and in the update branch.
C9_NextReviewDate ==
    last.called =>
        last.result.nextReviewDate = last.at + last.result.interval * HoursPerDay

\* an update whose six days run over the end of the month
C9_Witness ==
    /\ last.called
    /\ last.prior # Null
    /\ last.result.interval = 6
    /\ MonthFromDay(Day(last.result.nextReviewDate)) # MonthFromDay(Day(last.at))

\* C10: a quality above 5 returns the same schedule as quality 5, and a
\* quality below 0 the same schedule as quality 0.
C10_QualityClamped ==
    last.called =>
        /\ last.quality > 5 =>
               \E halfUp \in BOOLEAN :
                   last.result = calculateNextReview(last.prior,
                                     [quality |-> 5, isCorrect |-> last.isCorrect],
                                     last.at, halfUp)
        /\ last.quality < 0 =>
               \E halfUp \in BOOLEAN :
                   last.result = calculateNextReview(last.prior,
                                     [quality |-> 0, isCorrect |-> last.isCorrect],
                                     last.at, halfUp)

\* C11: needsReview is true exactly when the schedule is null or the time of
\* the call is at or after nextReviewDate.
C11_NeedsReview ==
    dueCall.called =>
        (dueCall.result <=>
            (dueCall.schedule = Null \/ dueCall.at >= dueCall.schedule.nextReviewDate))

\* a call at the very hour the review falls due
C11_Witness ==
    /\ dueCall.called
    /\ dueCall.schedule # Null
    /\ dueCall.at = dueCall.schedule.nextReviewDate
    /\ dueCall.result

\* C12: of two overdue schedules with the same masteryLevel and repetitions,
\* one overdue by d > 0 and one by 2d, the second never has the smaller
\* priority, and has the strictly greater one when d is below 5 days.
C12_MoreOverdueRanksHigher ==
    (/\ prioCall.called
     /\ prioCall.schedule # Null
     /\ prioCall.at > prioCall.schedule.nextReviewDate
     /\ (prioCall.at - prioCall.schedule.nextReviewDate) % 2 = 0) =>
        LET d == (prioCall.at - prioCall.schedule.nextReviewDate) \div 2
            half == [prioCall.schedule EXCEPT !.nextReviewDate = prioCall.at - d]
            other == getReviewPriority(half, prioCall.masteryLevel, prioCall.at)
        IN  /\ prioCall.result >= other
            /\ d < 5 * HoursPerDay => prioCall.result > other

\* overdue by more than 5 days and ranked above the same word overdue by half
\* of that, which is less than 5 days
C12_Witness ==
    /\ prioCall.called
    /\ prioCall.schedule # Null
    /\ prioCall.at - prioCall.schedule.nextReviewDate > 5 * HoursPerDay
    /\ prioCall.at - prioCall.schedule.nextReviewDate < 10 * HoursPerDay
    /\ (prioCall.at - prioCall.schedule.nextReviewDate) % 2 = 0
    /\ prioCall.result >
           getReviewPriority(
               [prioCall.schedule EXCEPT !.nextReviewDate =
                    prioCall.at - (prioCall.at - prioCall.schedule.nextReviewDate) \div 2],
               prioCall.masteryLevel, prioCall.at)

\* C13: for every non-null schedule with repetitions >= 0 and every
\* masteryLevel in 0..100 the priority is at most 100, the priority of a word
\* with no schedule.
C13_NullIsMaximum ==
    prioCall.called =>
        /\ prioCall.schedule = Null => prioCall.result = 100 * PriorityScale
        /\ prioCall.schedule # Null => prioCall.result <= 100 * PriorityScale

\* a scheduled word that reaches the maximum
C13_Witness ==
    /\ prioCall.called
    /\ prioCall.schedule # Null
    /\ prioCall.at - prioCall.schedule.nextReviewDate > 5 * HoursPerDay
    /\ prioCall.result = 100 * PriorityScale

\* C14: for a non-null schedule the priority is the sum of an overdue part in
\* 0..50, a mastery part in 0..30 and a repetition part in 0..20, and it does
\* not grow when masteryLevel or repetitions grows.
C14_PriorityParts ==
    (prioCall.called /\ prioCall.schedule # Null) =>
        LET sc == prioCall.schedule
            m == prioCall.masteryLevel
            rest == prioCall.result - OverdueFactor(sc, prioCall.at) - MasteryFactor(m)
        IN  /\ OverdueFactor(sc, prioCall.at) \in 0..(50 * PriorityScale)
            /\ 10 * MasteryFactor(m) = 3 * (100 - m) * PriorityScale
            /\ MasteryFactor(m) \in 0..(30 * PriorityScale)
            /\ rest \in 0..(20 * PriorityScale)
            /\ rest = IF sc.repetitions >= 10 THEN 0
                      ELSE (20 - 2 * sc.repetitions) * PriorityScale
            /\ m < 100 =>
                   getReviewPriority(sc, m + 1, prioCall.at) <= prioCall.result
            /\ getReviewPriority([sc EXCEPT !.repetitions = sc.repetitions + 1],
                                 m, prioCall.at) <= prioCall.result

\* a word with more than ten repetitions: the repetition part is at its floor
C14_Witness ==
    /\ prioCall.called
    /\ prioCall.schedule # Null
    /\ prioCall.schedule.repetitions > 10
    /\ prioCall.masteryLevel = 50
    /\ prioCall.at > prioCall.schedule.nextReviewDate
    /\ prioCall.result =
           OverdueFactor(prioCall.schedule, prioCall.at) + 15 * PriorityScale

\* C15: a failed review of a schedule reached from a never-studied word gives
\* interval 1 and repetitions 0 and keeps the ease factor; the next two
\* successful reviews give intervals 1 and 6, whatever the interval was before
\* the failure, and the first of them adjusts the ease factor that the word
\* had before the failure.
C15_Step ==
    (reviews' = reviews + 1 /\ last'.prior # Null) =>
        LET failed == last'.quality < 3 \/ ~last'.isCorrect
            e == last.prior.easeFactor + EaseDelta(last'.quality)
        IN  /\ failed =>
                   /\ last'.result.interval = 1
                   /\ last'.result.repetitions = 0
                   /\ last'.result.easeFactor = last'.prior.easeFactor
            /\ (sinceFailure = 0 /\ reviews >= 2 /\ ~failed) =>
                   /\ last'.result.interval = 1
                   /\ last'.result.repetitions = 1
                   /\ last'.result.easeFactor = IF e < 130 THEN 130 ELSE e
            /\ (sinceFailure = 1 /\ reviews >= 3 /\ ~failed) =>
                   /\ last'.result.interval = 6
                   /\ last'.result.repetitions = 2

C15_LapseAndRecovery == [][C15_Step]_vars

\* the second success after a failure that followed an ease-scaled interval
C15_Witness ==
    /\ reviews >= 6
    /\ sinceFailure = 2
    /\ last.prior # Null
    /\ last.prior.interval = 1
    /\ last.prior.repetitions = 1
    /\ schedule.interval = 6
    /\ schedule.repetitions = 2

\* the rows of a (user, word) pair
RowsOf(table, userId, wordId) ==
    {table[i] : i \in Matching(table, userId, wordId)}

\* C17: after two concurrent updateUserProgress calls for the same (user,
\* word) pair have both completed, exactly one row exists for the pair and it
\* holds the values of the call that wrote last.
C17_UpsertLastWriteWins ==
    \A a, b \in Callers :
        (/\ calls[a].pc = "done"
         /\ calls[b].pc = "done"
         /\ calls[a].userId = calls[b].userId
         /\ calls[a].wordId = calls[b].wordId
         /\ calls[a].order < calls[b].order
         /\ calls[b].seen < calls[a].order) =>
            LET found == RowsOf(rows, calls[b].userId, calls[b].wordId)
            IN  /\ Cardinality(found) = 1
                /\ \A r \in found : \A f \in DOMAIN calls[b].progress :
                       r[f] = calls[b].progress[f]

\* C18: a step that changes the rows of a (user, word) pair is the write of an
\* updateUserProgress call for that pair, so a call for one pair leaves the
\* rows of every other pair as they are.
C18_Step ==
    \A userId \in Users, wordId \in Words :
        RowsOf(rows', userId, wordId) # RowsOf(rows, userId, wordId) =>
            \E c \in Callers :
                /\ calls[c].pc = "write"
                /\ calls'[c].pc = "done"
                /\ calls[c].userId = userId
                /\ calls[c].wordId = wordId

C19_ScheduleChained ==
    (fb.called /\ fb.n >= 2) =>
        /\ fb.currentSchedule # Null
        /\ fb.currentSchedule = fb.previous

\* C20: the rows that GET /api/words-for-review returns are the user's rows
\* that needsReview calls due, a row without a review date being one whose
\* schedule is absent.
C20_Step ==
    reviewWords' # reviewWords =>
        {reviewWords'.data[i].progress : i \in 1..Len(reviewWords'.data)}
            = {rows[i] : i \in {k \in 1..Len(rows) :
                   /\ rows[k].userId = Me
                   /\ needsReview(IF rows[k].nextReview = NullDate THEN Null
                                  ELSE [nextReviewDate |-> rows[k].nextReview],
                                  now)}}

C20_ReviewQueryIsDue == [][C20_Step]_vars

\* C21: a needsReview call on the schedule the latest review returned is
\* false at every time before the review time plus interval days and true
\* from then on; at the time of the review itself it is false.
C21_DueFromIntervalOn ==
    (dueCall.called /\ last.called /\ dueCall.schedule = last.result) =>
        /\ dueCall.result <=>
               dueCall.at >= last.at + last.result.interval * HoursPerDay
        /\ dueCall.at = last.at => ~dueCall.result

\* a word reviewed late for the second time, asked about once its six days
\* have passed
C21_Witness ==
    /\ reviews = 2
    /\ last.prior # Null
    /\ last.at > last.prior.nextReviewDate
    /\ last.result.interval = 6
    /\ dueCall.called
    /\ dueCall.schedule = last.result
    /\ dueCall.at >= last.at + 6 * HoursPerDay
    /\ dueCall.result

\* C22: the result of generateReviewSession has min(maxWords, number of
\* words) entries, each the id of a different input word; the priorities of
\* the words it names do not increase along it, and no word left out has a
\* higher priority than a word in it.
C22_TopPriorityWords ==
    sessionCall.called =>
        LET words == sessionCall.wordsToReview
            result == sessionCall.result
            Priority(i) == getReviewPriority(words[i].schedule,
                                             words[i].masteryLevel,
                                             sessionCall.at)
            Place(k) == CHOOSE i \in 1..Len(words) : words[i].id = result[k]
            chosen == {Place(k) : k \in 1..Len(result)}
        IN  /\ Len(result) = Min(sessionCall.maxWords, Len(words))
            /\ \A k \in 1..Len(result) :
                   \E i \in 1..Len(words) : words[i].id = result[k]
            /\ \A k, m \in 1..Len(result) : result[k] = result[m] => k = m
            /\ \A k \in 1..(Len(result) - 1) :
                   Priority(Place(k)) >= Priority(Place(k + 1))
            /\ \A i \in (1..Len(words)) \ chosen : \A j \in chosen :
                   Priority(i) <= Priority(j)

\* three words in rising order of priority, of which the two highest are
\* returned, highest first
C22_Witness ==
    /\ sessionCall.called
    /\ Len(sessionCall.wordsToReview) = 3
    /\ sessionCall.maxWords = 2
    /\ sessionCall.result = <<"w3", "w2">>
    /\ sessionCall.wordsToReview[1].schedule # Null
    /\ sessionCall.wordsToReview[2].schedule # Null
    /\ sessionCall.wordsToReview[3].schedule = Null
    /\ getReviewPriority(sessionCall.wordsToReview[1].schedule,
                         sessionCall.wordsToReview[1].masteryLevel,
                         sessionCall.at)
         < getReviewPriority(sessionCall.wordsToReview[2].schedule,
                             sessionCall.wordsToReview[2].masteryLevel,
                             sessionCall.at)

\* C23: a successful review of a word that has a schedule never returns a
\* shorter interval than the schedule had, and when the review before it was
\* successful too it returns a longer one.
C23_IntervalsGrow ==
    (/\ last.called
     /\ last.prior # Null
     /\ ~FailedReview(last.quality, last.isCorrect)) =>
        /\ last.result.interval >= last.prior.interval
        /\ sinceFailure >= 2 => last.result.interval > last.prior.interval

\* the sixth success in a row, each with the lowest passing answer
C23_Witness ==
    /\ last.called
    /\ sinceFailure >= 6
    /\ last.quality = 3
    /\ last.prior # Null
    /\ last.prior.easeFactor < 200
    /\ last.result.interval > last.prior.interval

\* the word ids of a list, in its order
Ids(list) == [i \in 1..Len(list) |-> list[i].id]

\* C24 as stated: in an initialized session no step changes the words of
\* sessionWords or their order, a step that brings new query data changes
\* neither sessionWords nor currentWordIndex, and currentWordIndex is an index
\* of sessionWords.
C24_OriginalStep ==
    /\ isSessionInitialized => Ids(sessionWords') = Ids(sessionWords)
    /\ (/\ isSessionInitialized
        /\ reviewWords' # reviewWords \/ newWords' # newWords) =>
           (sessionWords' = sessionWords /\ currentWordIndex' = currentWordIndex)
    /\ isSessionInitialized' =>
           currentWordIndex' \in 0..(Len(sessionWords') - 1)

C24_Original == [][C24_OriginalStep]_vars

\* C24, amended: the same, with currentWordIndex an index of sessionWords
\* whenever the session has words (a session without words keeps index 0).
C24_Step ==
    /\ isSessionInitialized => Ids(sessionWords') = Ids(sessionWords)
    /\ (/\ isSessionInitialized
        /\ reviewWords' # reviewWords \/ newWords' # newWords) =>
           (sessionWords' = sessionWords /\ currentWordIndex' = currentWordIndex)
    /\ (isSessionInitialized' /\ sessionWords' # <<>>) =>
           currentWordIndex' \in 0..(Len(sessionWords') - 1)
    /\ (isSessionInitialized' /\ sessionWords' = <<>>) => currentWordIndex' = 0

C24_SessionFixed == [][C24_Step]_vars

\* after an answer the review words were fetched again and no longer hold a
\* word that the session still shows
C24_Witness ==
    /\ isSessionInitialized
    /\ fb.called
    /\ reviewWords.loaded
    /\ currentWordIndex > 0
    /\ \E i \in 1..Len(sessionWords) :
           /\ sessionWords[i].progress # NoProgress
           /\ \A k \in 1..Len(reviewWords.data) :
                  reviewWords.data[k].id # sessionWords[i].id

\* C25: for every word of the session that has been answered, the user's row
\* of the word holds the timesStudied the word had when the session started
\* plus the number of answers given to it, and the timesCorrect it had plus
\* the number of those answers with quality >= 3.
C25_CountsExact ==
    \A i \in 1..Len(sessionWords) :
        LET word == sessionWords[i]
            studied == IF word.progress = NoProgress THEN 0
                       ELSE word.progress.timesStudied
            correct == IF word.progress = NoProgress THEN 0
                       ELSE word.progress.timesCorrect
            found == RowsOf(rows, Me, word.id)
        IN  answered[word.id].n >= 1 =>
                /\ found # {}
                /\ \A r \in found :
                       /\ r.timesStudied = studied + answered[word.id].n
                       /\ r.timesCorrect = correct + answered[word.id].correct

\* C26: the words that GET /api/new-words-for-plan returns have no row of the
\* user, and no word id occurs twice in the session's list.
C26_Step ==
    /\ newWords' # newWords =>
           \A k \in 1..Len(newWords'.data) :
               Matching(rows, Me, newWords'.data[k].id) = {}
    /\ \A i, j \in 1..Len(sessionWords') :
           sessionWords'[i].id = sessionWords'[j].id => i = j

C26_NoWordTwice == [][C26_Step]_vars

\* the plans of a user
PlansOf(table, userId) == {p \in table : p.userId = userId}

\* C27: at most one plan of each user is active.
C27_OneActivePlan ==
    \A userId \in Users :
        Cardinality({p \in PlansOf(plans, userId) : p.isActive}) <= 1

\* C28: an activate request that names no plan of the user leaves the user's
\* plans as they were.
C28_Step ==
    (/\ planCall'.n = planCall.n + 1
     /\ planCall'.op = "activate"
     /\ ~\E p \in plans : p.userId = planCall'.userId /\ p.id = planCall'.id) =>
        PlansOf(plans', planCall'.userId) = PlansOf(plans, planCall'.userId)

C28_ActivateMissingKeepsPlans == [][C28_Step]_vars

\* the call of c is a toggleWordStar call that has written
ToggleDone(c) ==
    /\ calls[c].pc = "done"
    /\ DOMAIN calls[c].progress = {"isStarred"}

\* a and b are toggleWordStar calls for one pair, both have written and
\* theirs are the latest two writes
LastTwoToggles(a, b) ==
    /\ a # b
    /\ ToggleDone(a)
    /\ ToggleDone(b)
    /\ calls[a].userId = calls[b].userId
    /\ calls[a].wordId = calls[b].wordId
    /\ calls[a].order = writes - 1
    /\ calls[b].order = writes

\* the write of a star or vocabulary-book request leaves the review state of
\* every row that exists alone
C29_Frame ==
    \A c \in Callers :
        (/\ calls[c].pc = "write"
         /\ calls'[c].pc = "done"
         /\ DOMAIN calls[c].progress \subseteq
                {"isStarred", "isInVocabularyBook"}) =>
            \A i \in 1..Len(rows) :
                /\ rows'[i].nextReview = rows[i].nextReview
                /\ rows'[i].timesStudied = rows[i].timesStudied
                /\ rows'[i].timesCorrect = rows[i].timesCorrect
                /\ rows'[i].masteryLevel = rows[i].masteryLevel

\* two toggleWordStar calls for one pair, the second begun after the first
\* has written, leave the pair starred as it was
C29_Restored ==
    \A a, b \in Callers :
        (/\ LastTwoToggles(a, b)
         /\ toggles[a].began = writes - 2
         /\ toggles[b].began = writes - 1) =>
            StarredOf(rows, calls[a].userId, calls[a].wordId) = toggles[a].was

\* C29: toggleWordStar and addToVocabularyBook leave nextReview, timesStudied,
\* timesCorrect and masteryLevel of every existing row unchanged, and two
\* consecutive toggleWordStar calls for one (user, word) pair restore the
\* isStarred value.
C29_StarLeavesReviewState == [][C29_Frame /\ C29_Restored']_vars

\* C30: two concurrent toggleWordStar calls for one (user, word) pair, both
\* begun before either has written, leave isStarred as it was.
C30_TogglesNotLost ==
    \A a, b \in Callers :
        (/\ LastTwoToggles(a, b)
         /\ toggles[a].began = writes - 2
         /\ toggles[b].began = writes - 2) =>
            StarredOf(rows, calls[a].userId, calls[a].wordId) = toggles[a].was

====
